---- MODULE Spec2Model ----
(***************************************************************************)
(* A model of remove_starfield/utils.py: find_bounds and                   *)
(* find_collective_bounds.                                                 *)
(*                                                                         *)
(* Coordinates (world and target-pixel) are floating point in the code.    *)
(* Here a finite coordinate is a rational with denominator Den, held as    *)
(* its integer numerator; NaN and the two infinities are separate values.  *)
(***************************************************************************)
EXTENDS Integers, Sequences, FiniteSets, TLC

\* ------------------------------------------------------------------ bounds
\* Largest image width and height (wcs.pixel_shape), in pixels.
MaxSize == 3
\* Largest value of one entry of a trim tuple.
MaxTrim == 1
\* Sub-pixel resolution: a finite coordinate n stands for n / Den.
Den == 2
\* Largest number of groups in a nested hdrs list; and of images in a group.
MaxGroups == 2
MaxGroupLen == 2

\* ------------------------------------------------------------ float values
Fin(n) == [k |-> "fin", v |-> n]
NaN == [k |-> "nan", v |-> 0]
PosInf == [k |-> "inf", v |-> 1]
NegInf == [k |-> "inf", v |-> -1]
\* Python's None, where it stands for an entry of world_coord_bounds.
None == [k |-> "none", v |-> 0]

\* np.isnan
isnan(a) == a.k = "nan"

\* a <= b on floats: false when either is NaN.
Leq(a, b) ==
    IF a.k = "nan" \/ b.k = "nan" THEN FALSE
    ELSE IF a.k = "inf" THEN (a.v = -1 \/ (b.k = "inf" /\ b.v = 1))
    ELSE IF b.k = "inf" THEN b.v = 1
    ELSE a.v <= b.v

Range(s) == {s[i] : i \in DOMAIN s}

\* np.min / np.max of a non-empty array: NaN if any entry is NaN.
npmin(s) ==
    IF \E i \in DOMAIN s : isnan(s[i]) THEN NaN
    ELSE CHOOSE m \in Range(s) : \A u \in Range(s) : Leq(m, u)

npmax(s) ==
    IF \E i \in DOMAIN s : isnan(s[i]) THEN NaN
    ELSE CHOOSE m \in Range(s) : \A u \in Range(s) : Leq(u, m)

\* np.floor / np.ceil: NaN and the infinities pass through.
floor(a) == IF a.k = "fin" THEN Fin((a.v \div Den) * Den) ELSE a
ceil(a) == IF a.k = "fin" THEN Fin((-((-a.v) \div Den)) * Den) ELSE a

\* int(): of a whole finite float its value; of NaN a ValueError, of an
\* infinity an OverflowError.
intErr(a) == IF a.k = "nan" THEN "ValueError" ELSE "OverflowError"
intVal(a) == a.v \div Den

\* -------------------------------------------------- np.arange and np.full
\* np.arange(a, b): a, a+1, ..., b-1 (empty when b <= a).
arange(a, b) == [i \in 1..(IF b > a THEN b - a ELSE 0) |-> a + i - 1]
\* np.arange(a, b, -1): a, a-1, ..., b+1 (empty when a <= b).
arangeDown(a, b) == [i \in 1..(IF a > b THEN a - b ELSE 0) |-> a - i + 1]
\* np.full(n, v) for n >= 0 (n < 0 raises ValueError, see NegativeDims).
full(n, v) == [i \in 1..n |-> v]

\* ----------------------------------------------------- coordinate mappings
\* The source mappings (wcs.all_pix2world) the calls are tried with.
SourceMaps == {"identity", "offset", "flip", "radial", "nanLon", "infLon", "infLat"}
\* The target mappings (wcs_target.all_world2pix) the calls are tried with.
TargetMaps == {"identity", "offset", "periodic"}
\* Period of the periodic target's x axis, in target pixels times Den.
Period == 3 * Den

Sq(n) == n * n

\* wcs.all_pix2world(x, y, 0) for one pixel: <<lon, lat>>.
pix2world(wcs, x, y) ==
    CASE wcs = "identity" -> <<Fin(Den * x), Fin(Den * y)>>
      [] wcs = "offset" -> <<Fin(Den * x + 1), Fin(Den * y - 1)>>
      [] wcs = "flip" -> <<Fin(-(Den * x)), Fin(Den * y)>>
      [] wcs = "radial" -> <<Fin(Den * (Sq(x - 1) + Sq(y - 1))), Fin(Den * y)>>
      [] wcs = "nanLon" -> <<IF x = 0 THEN NaN ELSE Fin(Den * x), Fin(Den * y)>>
      [] wcs = "infLon" -> <<IF x = 0 THEN PosInf ELSE Fin(Den * x), Fin(Den * y)>>
      [] wcs = "infLat" -> <<Fin(Den * x), IF y = 0 THEN NegInf ELSE Fin(Den * y)>>

\* What the target transform makes of a non-finite world coordinate: the
\* library either yields NaN or lets the infinity through.
NonFiniteModes == {"nan", "inf"}

w2p1(f, a, nf) ==
    IF a.k = "fin" THEN Fin(f) ELSE IF nf = "nan" THEN NaN ELSE a

\* wcs_target.all_world2pix(lon, lat, 0) for one sample: <<cx, cy>>.
world2pix(tgt, lon, lat, nf) ==
    CASE tgt = "identity" -> <<w2p1(lon.v, lon, nf), w2p1(lat.v, lat, nf)>>
      [] tgt = "offset" -> <<w2p1(lon.v + 1, lon, nf), w2p1(lat.v - 1, lat, nf)>>
      [] tgt = "periodic" -> <<w2p1(lon.v % Period, lon, nf), w2p1(lat.v, lat, nf)>>

\* ------------------------------------------------------------- find_bounds
\* The trimmed pixel rectangle. hdr is [w, h, wcs]: pixel_shape and mapping.
left(hdr, trim) == 0 + trim[1]
\* Mutants of right: one column too far; the trim added instead of taken off.
right_off_by_one(hdr, trim) == hdr.w - trim[2] + 1
right_sign_slip(hdr, trim) == hdr.w + trim[2]
right(hdr, trim) == hdr.w - trim[2]
bottom(hdr, trim) == 0 + trim[3]
top(hdr, trim) == hdr.h - trim[4]

\* np.full raises ValueError for a negative count.
NegativeDims(hdr, trim) ==
    \/ top(hdr, trim) - bottom(hdr, trim) < 0
    \/ right(hdr, trim) - left(hdr, trim) < 0

\* Mutant of edge_xs: the right edge placed at x = right, not right - 1.
edge_xs_right_edge_outside(hdr, trim) ==
    LET l == left(hdr, trim)
        r == right(hdr, trim)
        b == bottom(hdr, trim)
        t == top(hdr, trim)
    IN  arange(l, r) \o full(t - b, r) \o arangeDown(r - 1, l - 1) \o full(t - b, l)

\* The x and y pixel coordinates along the edges.
edge_xs(hdr, trim) ==
    LET l == left(hdr, trim)
        r == right(hdr, trim)
        b == bottom(hdr, trim)
        t == top(hdr, trim)
    IN  arange(l, r) \o full(t - b, r - 1) \o arangeDown(r - 1, l - 1) \o full(t - b, l)

edge_ys(hdr, trim) ==
    LET l == left(hdr, trim)
        r == right(hdr, trim)
        b == bottom(hdr, trim)
        t == top(hdr, trim)
    IN  full(r - l, b) \o arange(b, t) \o full(r - l, t - 1) \o arangeDown(t - 1, b - 1)

\* lon, lat = wcs.all_pix2world(xs, ys, 0)
all_pix2world(wcs, xs, ys) == [i \in DOMAIN xs |-> pix2world(wcs, xs[i], ys[i])]

\* world_coord_bounds after the four "if ... is None" assignments; the
\* assignments write into the list the caller passed.
fill_bounds(wcb) ==
    [i \in DOMAIN wcb |->
        IF wcb[i] = None
        THEN (IF i \in {1, 3} THEN NegInf ELSE PosInf)
        ELSE wcb[i]]

\* The mask f, for one sample.
in_bounds(b, ll) ==
    /\ Leq(b[1], ll[1])
    /\ Leq(ll[1], b[2])
    /\ Leq(b[3], ll[2])
    /\ Leq(ll[2], b[4])

\* lon[f], lat[f]
SelectSeq2(s, b) == SelectSeq(s, LAMBDA ll : in_bounds(b, ll))

Result(kind, box) == [kind |-> kind, box |-> box]
NoBox == <<>>

\* The return statement: four int() conversions, evaluated in order.
to_box(c) ==
    LET cx == [i \in DOMAIN c |-> c[i][1]]
        cy == [i \in DOMAIN c |-> c[i][2]]
        e == <<floor(npmin(cx)), ceil(npmax(cx)), floor(npmin(cy)), ceil(npmax(cy))>>
        bad == {i \in 1..4 : e[i].k # "fin"}
    IN  IF Len(c) = 0 THEN Result("ValueError", NoBox)
        ELSE IF bad # {}
        THEN Result(intErr(e[CHOOSE i \in bad : \A j \in bad : i <= j]), NoBox)
        ELSE Result("box", [i \in 1..4 |-> intVal(e[i])])

\* clip is [given, list]: world_coord_bounds=None is given = FALSE.
NoClip == [given |-> FALSE, list |-> <<>>]
Clip(l) == [given |-> TRUE, list |-> l]

\* find_bounds(hdr, wcs_target, trim, world_coord_bounds): the result, and
\* the caller's world_coord_bounds list as the call leaves it.
find_bounds(hdr, tgt, trim, clip, nf) ==
    IF NegativeDims(hdr, trim)
    THEN [result |-> Result("ValueError", NoBox), wcb |-> clip]
    ELSE
    LET xs == edge_xs(hdr, trim)
        ys == edge_ys(hdr, trim)
        ll == all_pix2world(hdr.wcs, xs, ys)
    IN  IF \E i \in DOMAIN ll : isnan(ll[i][1]) \/ isnan(ll[i][2])
        THEN [result |-> Result("AssertionError", NoBox), wcb |-> clip]
        ELSE IF ~clip.given
        THEN [result |-> to_box([i \in DOMAIN ll |->
                            world2pix(tgt, ll[i][1], ll[i][2], nf)]),
              wcb |-> clip]
        ELSE IF Len(clip.list) # 4
        THEN [result |-> Result("AssertionError", NoBox), wcb |-> clip]
        ELSE
        LET b == fill_bounds(clip.list)
            kept == SelectSeq2(ll, b)
        IN  IF Len(kept) = 0
            THEN [result |-> Result("None", NoBox), wcb |-> Clip(b)]
            ELSE [result |-> to_box([i \in DOMAIN kept |->
                                world2pix(tgt, kept[i][1], kept[i][2], nf)]),
                  wcb |-> Clip(b)]

\* ------------------------------------------------------------------- state
VARIABLES pc, args, world_coord_bounds, result, xs, ys

vars == <<pc, args, world_coord_bounds, result, xs, ys>>

Sizes == 1..MaxSize
Headers == [w : Sizes, h : Sizes, wcs : SourceMaps]
Trims == [1..4 -> 0..MaxTrim]
\* A clip value: one world unit.
ClipEntries == {None, Fin(Den)}
ClipArgs == {NoClip} \cup {Clip(l) : l \in [1..4 -> ClipEntries]}
                \cup {Clip(<<None, None, None>>)}

Init ==
    /\ pc = "idle"
    /\ args = [fn |-> "none"]
    /\ world_coord_bounds = NoClip
    /\ result = Result("none", NoBox)
    /\ xs = <<>>
    /\ ys = <<>>

\* One call of find_bounds, from the caller's arguments to its return.
Call(hdr, tgt, trim, clip, nf) ==
    LET r == find_bounds(hdr, tgt, trim, clip, nf)
    IN  /\ args' = [fn |-> "find_bounds", hdr |-> hdr, wcs_target |-> tgt,
                    trim |-> trim, world_coord_bounds |-> clip]
        /\ world_coord_bounds' = r.wcb
        /\ result' = r.result
        /\ xs' = IF NegativeDims(hdr, trim) THEN <<>> ELSE edge_xs(hdr, trim)
        /\ ys' = IF NegativeDims(hdr, trim) THEN <<>> ELSE edge_ys(hdr, trim)
        /\ pc' = "returned"

\* find_bounds called with world_coord_bounds left at its default, None.
FindBoundsDefault ==
    /\ pc = "idle"
    /\ \E hdr \in Headers, tgt \in TargetMaps, trim \in Trims, nf \in NonFiniteModes :
          Call(hdr, tgt, trim, NoClip, nf)

\* find_bounds called with a world_coord_bounds list.
FindBoundsClipped ==
    /\ pc = "idle"
    /\ \E hdr \in Headers, tgt \in TargetMaps, trim \in Trims,
          clip \in ClipArgs \ {NoClip}, nf \in NonFiniteModes :
          Call(hdr, tgt, trim, clip, nf)

\* --------------------------------------------------- find_collective_bounds
\* hdrs is [shape, items]: one Header ("single", items = <<hdr>>), a list of
\* Headers ("flat"), or a list of lists of Headers ("nested").
\* trim is [shape, items]: one tuple ("tuple", items = <<t>>) or a list of
\* tuples ("list").

\* hdrs[0] and trim[0] raise IndexError on an empty list.
IndexErrorAtNormalise(hdrs, trim) ==
    \/ hdrs.shape # "single" /\ Len(hdrs.items) = 0
    \/ trim.shape = "list" /\ Len(trim.items) = 0

\* hdrs after the two isinstance tests: a list of lists.
normalise_hdrs(hdrs) ==
    CASE hdrs.shape = "single" -> <<hdrs.items>>
      [] hdrs.shape = "flat" -> <<hdrs.items>>
      [] hdrs.shape = "nested" -> hdrs.items

\* trim after "if not isinstance(trim[0], Iterable)": a list of tuples.
normalise_trim(trim, ngroups) ==
    IF trim.shape = "tuple" THEN [i \in 1..ngroups |-> trim.items[1]]
    ELSE trim.items

\* zip(hdrs, trim): as many pairs as the shorter of the two has entries.
zip(a, b) == [i \in 1..(IF Len(a) <= Len(b) THEN Len(a) ELSE Len(b)) |-> <<a[i], b[i]>>]

\* The list "bounds" the loop builds: find_bounds of every hdr of every
\* zipped group, in order.
RECURSIVE collect(_, _, _)
collect(pairs, tgt, nf) ==
    IF Len(pairs) = 0 THEN <<>>
    ELSE LET h == pairs[1][1]
             t == pairs[1][2]
         IN  [i \in DOMAIN h |-> find_bounds(h[i], tgt, t, NoClip, nf).result]
                \o collect(Tail(pairs), tgt, nf)

MinOf(S) == CHOOSE m \in S : \A u \in S : m <= u
MaxOf(S) == CHOOSE m \in S : \A u \in S : u <= m

\* np.min(bounds[0]), np.max(bounds[1]), np.min(bounds[2]), np.max(bounds[3])
reduce(boxes) ==
    <<MinOf({boxes[i][1] : i \in DOMAIN boxes}),
      MaxOf({boxes[i][2] : i \in DOMAIN boxes}),
      MinOf({boxes[i][3] : i \in DOMAIN boxes}),
      MaxOf({boxes[i][4] : i \in DOMAIN boxes})>>

find_collective_bounds(hdrs, tgt, trim, nf) ==
    IF IndexErrorAtNormalise(hdrs, trim) THEN Result("IndexError", NoBox)
    ELSE
    LET groups == normalise_hdrs(hdrs)
        trims == normalise_trim(trim, Len(groups))
        bounds == collect(zip(groups, trims), tgt, nf)
        failed == {i \in DOMAIN bounds : bounds[i].kind # "box"}
    IN  IF failed # {}
        THEN bounds[CHOOSE i \in failed : \A j \in failed : i <= j]
        ELSE IF Len(bounds) = 0 THEN Result("IndexError", NoBox)
        ELSE Result("box", reduce([i \in DOMAIN bounds |-> bounds[i].box]))

SeqsUpTo(S, lo, hi) == UNION {[1..n -> S] : n \in lo..hi}

\* The images the collective calls are tried with.
CollectiveHeaders ==
    {[w |-> MaxSize, h |-> MaxSize, wcs |-> "identity"],
     [w |-> MaxSize - 1, h |-> MaxSize, wcs |-> "flip"],
     [w |-> MaxSize, h |-> MaxSize - 1, wcs |-> "offset"],
     [w |-> MaxSize - 1, h |-> MaxSize - 1, wcs |-> "nanLon"]}
CollectiveTrims == {<<0, 0, 0, 0>>, <<MaxTrim, 0, 0, MaxTrim>>}

HdrsArgs ==
    {[shape |-> "single", items |-> <<h>>] : h \in CollectiveHeaders}
    \cup {[shape |-> "flat", items |-> g] : g \in SeqsUpTo(CollectiveHeaders, 1, MaxGroupLen)}
    \cup {[shape |-> "nested", items |-> gs] :
            gs \in SeqsUpTo(SeqsUpTo(CollectiveHeaders, 0, MaxGroupLen), 0, MaxGroups)}
TrimArgs ==
    {[shape |-> "tuple", items |-> <<t>>] : t \in CollectiveTrims}
    \cup {[shape |-> "list", items |-> ts] : ts \in SeqsUpTo(CollectiveTrims, 0, MaxGroups + 1)}

\* One call of find_collective_bounds, from its arguments to its return.
FindCollectiveBounds ==
    /\ pc = "idle"
    /\ \E hdrs \in HdrsArgs, tgt \in TargetMaps, trim \in TrimArgs, nf \in NonFiniteModes :
          /\ args' = [fn |-> "find_collective_bounds", hdrs |-> hdrs,
                      wcs_target |-> tgt, trim |-> trim]
          /\ result' = find_collective_bounds(hdrs, tgt, trim, nf)
    /\ pc' = "returned"
    /\ UNCHANGED <<world_coord_bounds, xs, ys>>

\* The caller takes the result and is ready for the next call.
Return ==
    /\ pc = "returned"
    /\ pc' = "idle"
    /\ args' = [fn |-> "none"]
    /\ world_coord_bounds' = NoClip
    /\ result' = Result("none", NoBox)
    /\ xs' = <<>>
    /\ ys' = <<>>

Next == FindBoundsDefault \/ FindBoundsClipped \/ FindCollectiveBounds \/ Return

Spec == Init /\ [][Next]_vars

\* The calls that leave world_coord_bounds at its default.
NextDefault == FindBoundsDefault \/ Return

SpecDefault == Init /\ [][NextDefault]_vars

\* ------------------------------------------------------- claims: helpers
\* A call of find_bounds has returned (with a box, with None, or by raising).
ReturnedFB == pc = "returned" /\ args.fn = "find_bounds"
ReturnedFBDefault == ReturnedFB /\ ~args.world_coord_bounds.given
ReturnedFCB == pc = "returned" /\ args.fn = "find_collective_bounds"

\* The result is an exception.
Raised(r) == r.kind \notin {"box", "None", "none"}

\* The trim leaves a positive extent on both axes.
ValidTrim(hdr, trim) ==
    right(hdr, trim) > left(hdr, trim) /\ top(hdr, trim) > bottom(hdr, trim)

ZeroTrim == <<0, 0, 0, 0>>
AllNone == <<None, None, None, None>>

\* Box a lies within box b.
Contained(a, b) == a[1] >= b[1] /\ a[2] <= b[2] /\ a[3] >= b[3] /\ a[4] <= b[4]

\* ---------------------------------------------------------------------- C1
\* C1: find_bounds never mutates the caller's world_coord_bounds list: after
\* the call the list holds the entries it held before it.
C1_ClipNotMutated ==
    ReturnedFB => world_coord_bounds = args.world_coord_bounds

\* ---------------------------------------------------------------------- C2
\* C2 (as claimed): with identity source and target mappings, no clip and a
\* valid trim, find_bounds returns (left, width - right, bottom, height - top).
C2_IdentityBox ==
    (ReturnedFBDefault /\ args.hdr.wcs = "identity" /\ args.wcs_target = "identity"
        /\ ValidTrim(args.hdr, args.trim))
    => result = Result("box", <<args.trim[1], args.hdr.w - args.trim[2],
                               args.trim[3], args.hdr.h - args.trim[4]>>)

\* C2 (amended): with identity source and target mappings, no clip and a
\* valid trim, find_bounds returns the coordinates of the outermost sampled
\* pixels, (left, width - right - 1, bottom, height - top - 1).
C2_IdentityBoxAmended ==
    (ReturnedFBDefault /\ args.hdr.wcs = "identity" /\ args.wcs_target = "identity"
        /\ ValidTrim(args.hdr, args.trim))
    => result = Result("box", <<args.trim[1], args.hdr.w - args.trim[2] - 1,
                               args.trim[3], args.hdr.h - args.trim[4] - 1>>)

C2_Witness ==
    /\ ReturnedFBDefault
    /\ args.hdr = [w |-> MaxSize, h |-> MaxSize, wcs |-> "identity"]
    /\ args.wcs_target = "identity"
    /\ args.trim = ZeroTrim
    /\ result = Result("box", <<0, MaxSize - 1, 0, MaxSize - 1>>)

\* ---------------------------------------------------------------------- C3
\* C3: whenever the trim leaves a non-positive extent (right <= left or
\* top <= bottom), find_bounds raises and returns neither a box nor None.
C3_BadTrimRaises ==
    (ReturnedFB /\ ~ValidTrim(args.hdr, args.trim)) => Raised(result)

\* ---------------------------------------------------------------------- C4
\* Some edge sample's world coordinate is NaN or infinite.
NonFiniteSample(hdr, trim) ==
    /\ ~NegativeDims(hdr, trim)
    /\ \E i \in DOMAIN edge_xs(hdr, trim) :
          LET ll == pix2world(hdr.wcs, edge_xs(hdr, trim)[i], edge_ys(hdr, trim)[i])
          IN  ll[1].k # "fin" \/ ll[2].k # "fin"

\* C4: whenever the pixel->world transform of an edge sample is not finite
\* (NaN, +infinity or -infinity), find_bounds raises and returns no box.
C4_NonFiniteRaises ==
    (ReturnedFB /\ NonFiniteSample(args.hdr, args.trim)) => Raised(result)

\* ---------------------------------------------------------------------- C5
\* C5: when trim is a list whose length differs from the number of groups,
\* find_collective_bounds raises.
C5_TrimCountMismatchRaises ==
    (ReturnedFCB /\ args.trim.shape = "list"
        /\ Len(args.trim.items) # Len(normalise_hdrs(args.hdrs)))
    => Raised(result)

\* ---------------------------------------------------------------------- C6
\* The box of the whole image: find_bounds with zero trim and no clip.
ZeroTrimResult(hdr, tgt) == find_bounds(hdr, tgt, ZeroTrim, NoClip, "nan").result

\* Every pixel of the image is carried, by the two transforms, to a target
\* position within box b.
Encloses(hdr, tgt, b) ==
    \A x \in 0..(hdr.w - 1), y \in 0..(hdr.h - 1) :
        LET ll == pix2world(hdr.wcs, x, y)
            c == world2pix(tgt, ll[1], ll[2], "nan")
        IN  /\ Leq(Fin(Den * b[1]), c[1]) /\ Leq(c[1], Fin(Den * b[2]))
            /\ Leq(Fin(Den * b[3]), c[2]) /\ Leq(c[2], Fin(Den * b[4]))

\* C6 (as claimed): for every image and mappings and every valid trim, the
\* box find_bounds returns lies within the box it returns with zero trim.
C6_TrimMonotone ==
    (ReturnedFBDefault /\ ValidTrim(args.hdr, args.trim) /\ result.kind = "box"
        /\ ZeroTrimResult(args.hdr, args.wcs_target).kind = "box")
    => Contained(result.box, ZeroTrimResult(args.hdr, args.wcs_target).box)

\* C6 (amended): the same, for mappings under which the zero-trim box
\* encloses the target position of every pixel of the image.
C6_TrimMonotoneAmended ==
    (ReturnedFBDefault /\ ValidTrim(args.hdr, args.trim) /\ result.kind = "box"
        /\ ZeroTrimResult(args.hdr, args.wcs_target).kind = "box"
        /\ Encloses(args.hdr, args.wcs_target,
                    ZeroTrimResult(args.hdr, args.wcs_target).box))
    => Contained(result.box, ZeroTrimResult(args.hdr, args.wcs_target).box)

C6_Witness ==
    /\ ReturnedFBDefault
    /\ args.trim = <<MaxTrim, MaxTrim, 0, MaxTrim>>
    /\ ValidTrim(args.hdr, args.trim)
    /\ args.hdr.wcs = "offset"
    /\ args.wcs_target = "offset"
    /\ result.kind = "box"
    /\ ZeroTrimResult(args.hdr, args.wcs_target).kind = "box"
    /\ Encloses(args.hdr, args.wcs_target, ZeroTrimResult(args.hdr, args.wcs_target).box)
    /\ result.box # ZeroTrimResult(args.hdr, args.wcs_target).box

\* ---------------------------------------------------------------------- C7
\* The groups and the trims as the call pairs them up.
GroupsOf(a) == normalise_hdrs(a.hdrs)
TrimsOf(a) == normalise_trim(a.trim, Len(normalise_hdrs(a.hdrs)))

\* <<g, i>>: image i of group g, for the groups that have a trim.
ImagesWithTrim(a) ==
    {gi \in (DOMAIN GroupsOf(a) \cap DOMAIN TrimsOf(a)) \X (1..MaxGroupLen) :
        gi[2] \in DOMAIN GroupsOf(a)[gi[1]]}

\* find_bounds of image <<g, i>> with its group's trim and no clip.
ImageResult(a, gi) ==
    find_bounds(GroupsOf(a)[gi[1]][gi[2]], a.wcs_target, TrimsOf(a)[gi[1]],
                NoClip, "nan").result

\* Every group that holds an image has a trim.
EveryImageHasTrim(a) ==
    \A g \in DOMAIN GroupsOf(a) : Len(GroupsOf(a)[g]) > 0 => g \in DOMAIN TrimsOf(a)

\* Box b is the elementwise min/max fold of the boxes of the images.
IsFoldOfImages(a, b) ==
    /\ ImagesWithTrim(a) # {}
    /\ \A gi \in ImagesWithTrim(a) : ImageResult(a, gi).kind = "box"
    /\ b[1] = MinOf({ImageResult(a, gi).box[1] : gi \in ImagesWithTrim(a)})
    /\ b[2] = MaxOf({ImageResult(a, gi).box[2] : gi \in ImagesWithTrim(a)})
    /\ b[3] = MinOf({ImageResult(a, gi).box[3] : gi \in ImagesWithTrim(a)})
    /\ b[4] = MaxOf({ImageResult(a, gi).box[4] : gi \in ImagesWithTrim(a)})

\* C7: the box find_collective_bounds returns is the elementwise fold of the
\* boxes find_bounds returns for each image of each group, with its group's
\* trim and no clip.
C7_CollectiveIsFold ==
    (ReturnedFCB /\ result.kind = "box")
    => (EveryImageHasTrim(args) /\ IsFoldOfImages(args, result.box))

\* The part of C7 the code keeps: when every group that holds an image has
\* a trim, the returned box is the fold.
C7_FoldWhenTrimsCoverGroups ==
    (ReturnedFCB /\ result.kind = "box" /\ EveryImageHasTrim(args))
    => IsFoldOfImages(args, result.box)

\* ---------------------------------------------------------------------- C8
\* C8: find_bounds with a clip of four None returns what it returns with the
\* clip omitted: the same box or the same failure, and never None.
C8_AllNoneClipIsNoOp ==
    (ReturnedFB /\ args.world_coord_bounds = Clip(AllNone))
    => \E nf \in NonFiniteModes :
          result = find_bounds(args.hdr, args.wcs_target, args.trim, NoClip, nf).result

\* ---------------------------------------------------------------------- C9
Abs(n) == IF n < 0 THEN -n ELSE n

\* The target x axis is periodic and two adjacent edge samples, less than
\* half a period apart in longitude, land at least half a period apart in
\* target x: the image straddles the wrap point.
Straddles(hdr, tgt, trim) ==
    /\ tgt = "periodic"
    /\ ~NegativeDims(hdr, trim)
    /\ LET ll == all_pix2world(hdr.wcs, edge_xs(hdr, trim), edge_ys(hdr, trim))
       IN  /\ \A i \in DOMAIN ll : ll[i][1].k = "fin" /\ ll[i][2].k = "fin"
           /\ \E i \in DOMAIN ll :
                 /\ i + 1 \in DOMAIN ll
                 /\ 2 * Abs(ll[i + 1][1].v - ll[i][1].v) < Period
                 /\ 2 * Abs(world2pix(tgt, ll[i + 1][1], ll[i + 1][2], "nan")[1].v
                            - world2pix(tgt, ll[i][1], ll[i][2], "nan")[1].v) >= Period

\* C9: when the image straddles the wrap point of a periodic target x axis,
\* find_bounds returns two boxes, one per half of the image, not one box.
C9_WrapReturnsTwoBoxes ==
    (ReturnedFBDefault /\ ValidTrim(args.hdr, args.trim)
        /\ Straddles(args.hdr, args.wcs_target, args.trim))
    => result.kind = "two boxes"

\* --------------------------------------------------------------------- C10
\* The pixels of the trimmed rectangle [l, r) x [b, t) that lie on its edge.
Boundary(l, r, b, t) ==
    {p \in (l..(r - 1)) \X (b..(t - 1)) :
        p[1] = l \/ p[1] = r - 1 \/ p[2] = b \/ p[2] = t - 1}

\* How often pixel p is sampled.
Visits(p) == Cardinality({i \in DOMAIN xs : i \in DOMAIN ys /\ <<xs[i], ys[i]>> = p})

\* The tour that visits each edge pixel once: bottom edge left to right,
\* right edge upwards, top edge right to left, left edge downwards.
TourOnce(l, r, b, t) ==
    [i \in 1..(r - l) |-> <<l + i - 1, b>>]
    \o [i \in 1..(t - b - 1) |-> <<r - 1, b + i>>]
    \o (IF t - b > 1 THEN [i \in 1..(r - l - 1) |-> <<r - 1 - i, t - 1>>] ELSE <<>>)
    \o (IF r - l > 1 /\ t - b > 2 THEN [i \in 1..(t - b - 2) |-> <<l, t - 1 - i>>]
        ELSE <<>>)

\* The four edges in the same order, each with both of its end pixels.
TourEdges(l, r, b, t) ==
    [i \in 1..(r - l) |-> <<l + i - 1, b>>]
    \o [i \in 1..(t - b) |-> <<r - 1, b + i - 1>>]
    \o [i \in 1..(r - l) |-> <<r - i, t - 1>>]
    \o [i \in 1..(t - b) |-> <<l, t - i>>]

Samples == [i \in DOMAIN xs |-> <<xs[i], ys[i]>>]

\* C10 (as claimed): for a valid trimmed rectangle the samples are the edge
\* pixels, each exactly once, in the order bottom, right, top, left; xs and
\* ys have equal length.
C10_PerimeterOnce ==
    (ReturnedFB /\ ValidTrim(args.hdr, args.trim))
    => LET l == left(args.hdr, args.trim)
           r == right(args.hdr, args.trim)
           b == bottom(args.hdr, args.trim)
           t == top(args.hdr, args.trim)
       IN  /\ Len(xs) = Len(ys)
           /\ \A p \in Boundary(l, r, b, t) : Visits(p) = 1
           /\ \A i \in DOMAIN xs : <<xs[i], ys[i]>> \in Boundary(l, r, b, t)
           /\ Samples = TourOnce(l, r, b, t)

\* C10 (amended): for a valid trimmed rectangle the samples are the four
\* edges in the order bottom, right, top, left, each edge with both of its
\* end pixels: every edge pixel is sampled, no other pixel is, xs and ys both
\* have length 2 * (width + height) of the rectangle, and when the rectangle
\* is at least 2 x 2 each corner is sampled twice and every other edge pixel
\* once.
C10_PerimeterEdges ==
    (ReturnedFB /\ ValidTrim(args.hdr, args.trim))
    => LET l == left(args.hdr, args.trim)
           r == right(args.hdr, args.trim)
           b == bottom(args.hdr, args.trim)
           t == top(args.hdr, args.trim)
           corners == {l, r - 1} \X {b, t - 1}
       IN  /\ Len(xs) = Len(ys)
           /\ Len(xs) = 2 * ((r - l) + (t - b))
           /\ \A p \in Boundary(l, r, b, t) : Visits(p) >= 1
           /\ \A i \in DOMAIN xs : <<xs[i], ys[i]>> \in Boundary(l, r, b, t)
           /\ Samples = TourEdges(l, r, b, t)
           /\ (r - l >= 2 /\ t - b >= 2) =>
                 \A p \in Boundary(l, r, b, t) :
                     Visits(p) = IF p \in corners THEN 2 ELSE 1

C10_Witness ==
    /\ ReturnedFB
    /\ args.hdr.w = MaxSize
    /\ args.hdr.h = MaxSize
    /\ args.trim = <<MaxTrim, 0, 0, 0>>
    /\ Len(xs) = 2 * ((MaxSize - MaxTrim) + MaxSize)
    /\ Visits(<<MaxTrim, 0>>) = 2
    /\ Visits(<<MaxTrim, 1>>) = 1

====
